---- MODULE Spec2Model ----
(***************************************************************************)
(* The capital-gains position ledger of the tax-report generator           *)
(* (gains.py: KDVPItem, DohKDVP), the Saxo closed-positions adapter        *)
(* (saxobank.py: saxo_trades_to_kdvp), the IBKR adapter (ibkr.py) and the   *)
(* gains run with its position validator and report (taxes.py: gains).     *)
(*                                                                         *)
(* Dates, prices, quantities and gains are small integers: the code only   *)
(* compares dates and prices, and adds quantities and gains.               *)
(***************************************************************************)
EXTENDS Integers, Sequences, FiniteSets

\* ------------------------------------------------------------------ bounds
\* Number of DohKDVP.add_trade calls a driver makes (Spec, RegistrySpec) and
\* of Trade elements in one IBKR export (GainsSpec).
MaxTrades == 3
\* Rows of one Saxo ClosedPositions report (SaxoSpec, GainsSpec).
MaxRows == 3
MaxInterests == 3
MaxClock == 72
MaxRetries == 3

\* The values the Lots and rows are built from.
Dates == {1, 2}
Quantities == {1, 2}
Prices == {150, 160}
Symbols == {"AAPL", "XDPD"}
AcquisitionTypes == {"A", "B"}
\* The stock the driver of Spec passes in; the tests and the adapters, and
\* with them RegistrySpec and SaxoSpec, pass 0.
StockPlaceholders == {7}

\* ------------------------------------------------------- gains.py: the Lots
OpenT == "KDVPSecurityOpen"
CloseT == "KDVPSecurityClose"

KDVPSecurityOpen(date, quantity, value, stock, acquisition_type) ==
    [type |-> OpenT, date |-> date, quantity |-> quantity, value |-> value,
     stock |-> stock, acquisition_type |-> acquisition_type]

KDVPSecurityClose(date, quantity, value, stock, loss_transfer) ==
    [type |-> CloseT, date |-> date, quantity |-> quantity, value |-> value,
     stock |-> stock, loss_transfer |-> loss_transfer]

\* The condition under which update_trade joins trade into the stored Lot s.
SameTradeNoPrice(s, trade) ==
    /\ s.date = trade.date
    /\ s.type = trade.type
    /\ \/ s.type = OpenT /\ s.acquisition_type = trade.acquisition_type
       \/ s.type = CloseT /\ s.loss_transfer = trade.loss_transfer

SameTradeNoVariant(s, trade) ==
    /\ s.date = trade.date
    /\ s.value = trade.value
    /\ s.type = trade.type

SameTrade(s, trade) ==
    /\ s.date = trade.date
    /\ s.value = trade.value
    /\ s.type = trade.type
    /\ \/ s.type = OpenT /\ s.acquisition_type = trade.acquisition_type
       \/ s.type = CloseT /\ s.loss_transfer = trade.loss_transfer

MatchIndexHead(securities, trade) ==
    IF securities # <<>> /\ SameTrade(securities[1], trade) THEN 1 ELSE 0

\* Index of the first stored Lot the loop of update_trade joins trade into,
\* 0 when the loop falls through.
MatchIndex(securities, trade) ==
    LET hits == {i \in 1..Len(securities) : SameTrade(securities[i], trade)}
    IN  IF hits = {} THEN 0 ELSE CHOOSE i \in hits : \A j \in hits : i <= j

update_trade_replace(securities, trade) ==
    LET i == MatchIndex(securities, trade)
    IN  IF i = 0
        THEN [merged |-> FALSE, securities |-> securities]
        ELSE [merged |-> TRUE,
              securities |-> [securities EXCEPT ![i].quantity = trade.quantity]]

update_trade_never(securities, trade) ==
    [merged |-> FALSE, securities |-> securities]

\* KDVPItem.update_trade: the returned bool and the list after the call.
update_trade(securities, trade) ==
    LET i == MatchIndex(securities, trade)
    IN  IF i = 0
        THEN [merged |-> FALSE, securities |-> securities]
        ELSE [merged |-> TRUE,
              securities |-> [securities EXCEPT
                                ![i].quantity = @ + trade.quantity]]

\* list.sort(key=lambda x: x.date): stable, ascending.  InsertByDate puts s
\* after every Lot whose date is not later than its own.
RECURSIVE InsertByDateBeforeEqual(_, _)
InsertByDateBeforeEqual(sorted, s) ==
    IF sorted = <<>> THEN <<s>>
    ELSE IF Head(sorted).date < s.date
         THEN <<Head(sorted)>> \o InsertByDateBeforeEqual(Tail(sorted), s)
         ELSE <<s>> \o sorted

RECURSIVE InsertByDate(_, _)
InsertByDate(sorted, s) ==
    IF sorted = <<>> THEN <<s>>
    ELSE IF Head(sorted).date <= s.date
         THEN <<Head(sorted)>> \o InsertByDate(Tail(sorted), s)
         ELSE <<s>> \o sorted

RECURSIVE SortFrom(_, _)
SortFrom(sorted, rest) ==
    IF rest = <<>> THEN sorted
    ELSE SortFrom(InsertByDate(sorted, Head(rest)), Tail(rest))

SortByDateUnsorted(securities) == securities

SortByDate(securities) == SortFrom(<<>>, securities)

\* The loop at the end of KDVPItem.add_trade: the value of the local `stock`
\* after the first i Lots.
RECURSIVE StockAfter(_, _)
StockAfter(securities, i) ==
    IF i = 0 THEN 0
    ELSE IF securities[i].type = OpenT
         THEN StockAfter(securities, i - 1) + securities[i].quantity
         ELSE StockAfter(securities, i - 1) - securities[i].quantity

RecomputeStockSkipped(securities) == securities

RecomputeStock(securities) ==
    [i \in 1..Len(securities) |->
        [securities[i] EXCEPT !.stock = StockAfter(securities, i)]]

KDVPItem_add_trade_stale(securities, trade) ==
    LET u == update_trade(securities, trade)
    IN  IF u.merged THEN u.securities
        ELSE RecomputeStock(SortByDate(Append(securities, trade)))

\* KDVPItem.add_trade on the securities list.
KDVPItem_add_trade(securities, trade) ==
    LET u == update_trade(securities, trade)
    IN  RecomputeStock(IF u.merged THEN u.securities
                       ELSE SortByDate(Append(securities, trade)))

\* ------------------------------------------------ gains.py: the registry
\* DohKDVP.items is a dict, kept here in insertion order as a sequence of
\* KDVPItem records; names are unique.
KDVPItem(name, is_fond, securities) ==
    [name |-> name, is_fond |-> is_fond, securities |-> securities]

Names(its) == {its[k].name : k \in 1..Len(its)}

ItemIndex(its, symbol) == CHOOSE k \in 1..Len(its) : its[k].name = symbol

DohKDVP_add_trade_fresh(its, symbol, trade, is_fond) ==
    LET fresh == KDVPItem(symbol, is_fond, KDVPItem_add_trade(<<>>, trade))
    IN  IF symbol \in Names(its)
        THEN [its EXCEPT ![ItemIndex(its, symbol)] = fresh]
        ELSE Append(its, fresh)

DohKDVP_add_trade_reflag(its, symbol, trade, is_fond) ==
    LET created == IF symbol \in Names(its) THEN its
                   ELSE Append(its, KDVPItem(symbol, is_fond, <<>>))
        k == ItemIndex(created, symbol)
    IN  [created EXCEPT
            ![k].securities = KDVPItem_add_trade(@, trade),
            ![k].is_fond = is_fond]

DohKDVP_add_trade_shared(its, symbol, trade, is_fond) ==
    LET created == IF symbol \in Names(its) THEN its
                   ELSE Append(its, KDVPItem(symbol, is_fond, <<>>))
        k == ItemIndex(created, symbol)
        securities == KDVPItem_add_trade(created[k].securities, trade)
    IN  [n \in 1..Len(created) |->
            [created[n] EXCEPT !.securities = securities]]

DohKDVP_add_trade(its, symbol, trade, is_fond) ==
    LET created == IF symbol \in Names(its) THEN its
                   ELSE Append(its, KDVPItem(symbol, is_fond, <<>>))
        k == ItemIndex(created, symbol)
    IN  [created EXCEPT
            ![k].securities = KDVPItem_add_trade(@, trade)]

\* The ledger of symbol, <<>> when the registry has none.
Ledger(its, symbol) ==
    IF symbol \in Names(its) THEN its[ItemIndex(its, symbol)].securities
    ELSE <<>>

\* ---------------------------------------------- the validator (taxes.py:254)
\* DohKDVP.validate_positions: one violation per Lot whose stock is negative,
\* naming the security, the Lot's date and the stock.
RECURSIVE LotViolations(_, _)
LotViolations(name, securities) ==
    IF securities = <<>> THEN <<>>
    ELSE (IF Head(securities).stock < 0
          THEN <<[symbol |-> name, date |-> Head(securities).date,
                  stock |-> Head(securities).stock]>>
          ELSE <<>>) \o LotViolations(name, Tail(securities))

RECURSIVE validate_positions(_)
validate_positions(its) ==
    IF its = <<>> THEN <<>>
    ELSE LotViolations(Head(its).name, Head(its).securities)
            \o validate_positions(Tail(its))

\* ------------------------------------- saxobank.py: saxo_trades_to_kdvp
\* A row of the processed ClosedPositions frame (taxes.py process_row).
\* An instrument has one asset type; a position is closed on or after the
\* day it was opened.
Instruments == {[Symbol |-> "AAPL", Asset_type |-> "Stock"],
                [Symbol |-> "XDPD", Asset_type |-> "Etf"]}
ClosePrices == {160}
Gains == {-250, 0, 500}
CloseIds == {1001, 1002}
CloseQuantities == {2, 3}

SaxoRows ==
    {[Symbol |-> ins.Symbol, Asset_type |-> ins.Asset_type,
      Trade_Date_Open |-> od, Trade_Date_Close |-> cd,
      QuantityOpen |-> qo, QuantityClose |-> qc,
      Open_Price |-> op, Close_Price |-> cp,
      ClosePositionId |-> id, Gain |-> g] :
        ins \in Instruments, od \in Dates, cd \in Dates,
        qo \in Quantities, qc \in CloseQuantities,
        op \in Prices, cp \in ClosePrices, id \in CloseIds, g \in Gains}

\* The gains run rejects a frame with a close date before the open date
\* (taxes.py:210-216).
ValidRows == {r \in SaxoRows : r.Trade_Date_Open <= r.Trade_Date_Close}

\* Frames of more than two rows are drawn from the rows of one security
\* bought one unit at a time at one price, in gain or in loss.
CoreRows ==
    {r \in ValidRows :
        /\ r.Symbol = "AAPL"
        /\ r.QuantityOpen = 1
        /\ r.Open_Price = 150
        /\ r.Trade_Date_Close = 2
        /\ r.Gain # 0}

RowsFor(n) == IF n <= 2 THEN ValidRows ELSE CoreRows

DataFrames == UNION {[1..n -> RowsFor(n)] : n \in 0..MaxRows}

\* trade_open of a row (saxobank.py:82-88).
TradeOpenCloseQuantity(row) ==
    KDVPSecurityOpen(row.Trade_Date_Open, row.QuantityClose, row.Open_Price,
                     0, "B")

TradeOpen(row) ==
    KDVPSecurityOpen(row.Trade_Date_Open, row.QuantityOpen, row.Open_Price,
                     0, "B")

\* trade_close of the row that first carries a close id (saxobank.py:104-110).
TradeCloseOpenQuantity(row, total_gain) ==
    KDVPSecurityClose(row.Trade_Date_Close, row.QuantityOpen, row.Close_Price,
                      0, total_gain < 0)

TradeClose(row, total_gain) ==
    KDVPSecurityClose(row.Trade_Date_Close, row.QuantityClose, row.Close_Price,
                      0, total_gain < 0)

\* `close_id not in seen_close_ids` (saxobank.py:92).
FirstEncounterAlways(seen, close_id) == TRUE

FirstEncounter(seen, close_id) == close_id \notin seen

GroupOfTwo(frame, close_id) ==
    LET group == SelectSeq(frame, LAMBDA r : r.ClosePositionId = close_id)
    IN  IF Len(group) <= 2 THEN group ELSE SubSeq(group, 1, 2)

\* group = df[df["ClosePositionId"] == close_id]
Group(frame, close_id) ==
    SelectSeq(frame, LAMBDA r : r.ClosePositionId = close_id)

\* group["QuantityClose"].unique()
UniqueCloseQuantitiesOfFirst(group) == {group[1].QuantityClose}

UniqueCloseQuantities(group) ==
    {group[j].QuantityClose : j \in 1..Len(group)}

\* group["Gain"].sum()
TotalGainOfFirst(group) == group[1].Gain

RECURSIVE TotalGain(_)
TotalGain(group) ==
    IF group = <<>> THEN 0 ELSE Head(group).Gain + TotalGain(Tail(group))

\* The is_fond argument of the row's add_trade calls (saxobank.py:89, 111).
IsFondOfStock(row) == row.Asset_type = "Stock"

IsFond(row) == row.Asset_type # "Stock"

\* The state of the loop over the rows: the registry, seen_close_ids, the
\* add_trade calls made so far, and whether sys.exit(1) was reached.
LoopStart(its) ==
    [items |-> its, seen_close_ids |-> {}, log |-> <<>>, exited |-> FALSE]

Call(i, row, trade) ==
    [row |-> i, symbol |-> row.Symbol, trade |-> trade,
     is_fond |-> IsFond(row)]

SaxoRowUnchecked(st, frame, i) ==
    LET row == frame[i]
        is_fond == IsFond(row)
        trade_open == TradeOpen(row)
        opened == DohKDVP_add_trade(st.items, row.Symbol, trade_open, is_fond)
        close_id == row.ClosePositionId
        trade_close == TradeClose(row, TotalGain(Group(frame, close_id)))
    IN  IF ~FirstEncounter(st.seen_close_ids, close_id)
        THEN [st EXCEPT !.items = opened,
                        !.log = Append(@, Call(i, row, trade_open))]
        ELSE [st EXCEPT !.items = DohKDVP_add_trade(opened, row.Symbol,
                                                    trade_close, is_fond),
                        !.log = @ \o <<Call(i, row, trade_open),
                                       Call(i, row, trade_close)>>,
                        !.seen_close_ids = @ \cup {close_id}]

\* One iteration of the loop, on row i.
SaxoRow(st, frame, i) ==
    LET row == frame[i]
        is_fond == IsFond(row)
        trade_open == TradeOpen(row)
        opened == DohKDVP_add_trade(st.items, row.Symbol, trade_open, is_fond)
        close_id == row.ClosePositionId
        group == Group(frame, close_id)
        trade_close == TradeClose(row, TotalGain(group))
    IN  IF ~FirstEncounter(st.seen_close_ids, close_id)
        THEN [st EXCEPT !.items = opened,
                        !.log = Append(@, Call(i, row, trade_open))]
        ELSE IF Cardinality(UniqueCloseQuantities(group)) > 1
        THEN [st EXCEPT !.items = opened,
                        !.log = Append(@, Call(i, row, trade_open)),
                        !.seen_close_ids = @ \cup {close_id},
                        !.exited = TRUE]
        ELSE [st EXCEPT !.items = DohKDVP_add_trade(opened, row.Symbol,
                                                    trade_close, is_fond),
                        !.log = @ \o <<Call(i, row, trade_open),
                                       Call(i, row, trade_close)>>,
                        !.seen_close_ids = @ \cup {close_id}]

\* The loop from row i on; sys.exit(1) ends it.
RECURSIVE SaxoLoop(_, _, _)
SaxoLoop(st, frame, i) ==
    IF st.exited \/ i > Len(frame) THEN st
    ELSE SaxoLoop(SaxoRow(st, frame, i), frame, i + 1)

saxo_trades_to_kdvp(frame, its) == SaxoLoop(LoopStart(its), frame, 1)

\* --------------------------------------------------------------- ibkr.py
\* A Trade element of the Flex Query export, by the attributes that
\* process_ibkr_xml reads.  Every element of the model carries a tradeDate
\* and a tradePrice; a missing symbol or isin is the empty string.
TradeElem(assetCategory, currency, symbol, isin, tradeDate, quantity, buySell, subCategory) ==
    [assetCategory |-> assetCategory, currency |-> currency,
     symbol |-> symbol, isin |-> isin, tradeDate |-> tradeDate,
     quantity |-> quantity, tradePrice |-> 150,
     buySell |-> buySell, subCategory |-> subCategory]

\* Purchases and sales of one stock in EUR; the export signs the quantity of
\* a sale, and a quantity of 0 is what a missing attribute defaults to.
Orders == {[buySell |-> "BUY", quantity |-> 2],
           [buySell |-> "BUY", quantity |-> 0],
           [buySell |-> "SELL", quantity |-> -2],
           [buySell |-> "SELL", quantity |-> -1]}

StockElems ==
    {TradeElem("STK", "EUR", "AAPL", "US0378331005", d, o.quantity,
               o.buySell, "COMMON") : d \in Dates, o \in Orders}

\* An ETF purchase, an option trade, a trade in USD, a trade without isin
\* and a trade without symbol.
OtherElems ==
    {TradeElem("STK", "EUR", "XDPD", "IE00BM67HT60", 1, 2, "BUY", "ETF"),
     TradeElem("OPT", "EUR", "AAPL", "US0378331005", 1, 2, "BUY", ""),
     TradeElem("STK", "USD", "AAPL", "US0378331005", 1, 2, "BUY", "COMMON"),
     TradeElem("STK", "EUR", "AAPL", "", 1, 2, "BUY", "COMMON"),
     TradeElem("STK", "EUR", "", "US0378331005", 1, 2, "BUY", "COMMON")}

TradeElems == StockElems \cup OtherElems

Abs(x) == IF x < 0 THEN 0 - x ELSE x

IBKRTrade(symbol, isin, trade_date, quantity, price, is_buy, is_etf) ==
    [symbol |-> symbol, isin |-> isin, trade_date |-> trade_date,
     quantity |-> quantity, price |-> price, is_buy |-> is_buy,
     is_etf |-> is_etf]

\* The loop of process_ibkr_xml over the Trade elements (ibkr.py:60-111):
\* the trades collected, and whether sys.exit(1) was reached.
RECURSIVE ParseTrades(_, _)
ParseTrades(elems, trades) ==
    IF elems = <<>> THEN [exited |-> FALSE, trades |-> trades]
    ELSE LET e == Head(elems)
         IN  IF e.assetCategory # "STK"
             THEN ParseTrades(Tail(elems), trades)
             ELSE IF e.currency # "EUR"
             THEN [exited |-> TRUE, trades |-> trades]
             ELSE IF e.symbol = ""
             THEN ParseTrades(Tail(elems), trades)
             ELSE IF e.isin = ""
             THEN [exited |-> TRUE, trades |-> trades]
             ELSE ParseTrades(Tail(elems),
                     Append(trades,
                            IBKRTrade(e.symbol, e.isin, e.tradeDate,
                                      Abs(e.quantity), e.tradePrice,
                                      e.buySell = "BUY",
                                      e.subCategory = "ETF")))

process_ibkr_xml(elems) == ParseTrades(elems, <<>>)

\* kdvp_trade of one IBKR trade (ibkr.py:133-148).
IbkrLotOfSaxo(trade) ==
    IF trade.is_buy
    THEN KDVPSecurityOpen(trade.trade_date, trade.quantity, trade.price,
                          0, "B")
    ELSE KDVPSecurityClose(trade.trade_date, trade.quantity, trade.price,
                           0, TRUE)

IbkrLot(trade) ==
    IF trade.is_buy
    THEN KDVPSecurityOpen(trade.trade_date, trade.quantity, trade.price,
                          0, "A")
    ELSE KDVPSecurityClose(trade.trade_date, trade.quantity, trade.price,
                           0, FALSE)

ibkr_trades_to_kdvp(trades) ==
    [i \in 1..Len(trades) |->
        <<trades[i].symbol, IbkrLot(trades[i]), trades[i].is_etf>>]

\* for isin, trade, is_fond in kdvp_trades: doh_kdvp.add_trade(...)
RECURSIVE AddAll(_, _)
AddAll(its, tuples) ==
    IF tuples = <<>> THEN its
    ELSE AddAll(DohKDVP_add_trade(its, Head(tuples)[1], Head(tuples)[2],
                                  Head(tuples)[3]),
                Tail(tuples))

\* ------------------------------------------- taxes.py: gains, the Saxo rows
\* A row of the ClosedPositions sheet as read, in EUR, opened on day 1 and
\* closed on day 2: the sheet signs the quantities.
RawRow(instrument, asset_type, od, cd, qo, qc, id, pnl) ==
    [Instrument_Symbol |-> instrument, Asset_type |-> asset_type,
     Instrument_currency |-> "EUR",
     Trade_Date_Open |-> od, Trade_Date_Close |-> cd,
     Quantity_Open |-> qo, QuantityClose |-> qc,
     Open_Price |-> 150, Close_Price |-> 160,
     ClosePositionId |-> id, PnLAccountCurrency |-> pnl]

RawRows ==
    {RawRow("AAPL:xnas", "Stock", 1, 2, qo, qc, id, 500) :
        qo \in {2, -2}, qc \in {-2, -3}, id \in CloseIds}
    \cup
    {RawRow("AAPL:xnas", "Stock", 1, 2, 2, -2, 1001, -250),
     RawRow("XDPD:xetr", "Etf", 1, 2, 2, -2, 1002, 500),
     RawRow("AAPL:xnas", "Stock", 2, 1, 2, -2, 1001, 500)}

\* row["Instrument Symbol"].split(":")[0]
SymbolOf(instrument) ==
    CASE instrument = "AAPL:xnas" -> "AAPL"
      [] instrument = "XDPD:xetr" -> "XDPD"

\* process_row (taxes.py:221-236) on a row in EUR, where both conversions
\* stay 1.
process_row(row) ==
    LET conversion_open == 1
        conversion_close == 1
    IN  [Symbol |-> SymbolOf(row.Instrument_Symbol),
         Asset_type |-> row.Asset_type,
         Trade_Date_Open |-> row.Trade_Date_Open,
         Trade_Date_Close |-> row.Trade_Date_Close,
         QuantityOpen |-> row.Quantity_Open,
         QuantityClose |-> Abs(row.QuantityClose),
         Open_Price |-> row.Open_Price \div conversion_open,
         Close_Price |-> row.Close_Price \div conversion_close,
         ClosePositionId |-> row.ClosePositionId,
         Gain |-> row.PnLAccountCurrency]

\* df[df["Trade Date Close"] < df["Trade Date Open"]] is not empty.
InvalidDates(raw) ==
    \E i \in 1..Len(raw) : raw[i].Trade_Date_Close < raw[i].Trade_Date_Open

\* ------------------------------------------ taxes.py: gains, the report
\* "{:.4f}".format(x), as the number of ten-thousandths it prints.
Fixed4(x) == x * 10000

\* str(b).lower()
BoolStr(b) == IF b THEN "true" ELSE "false"

\* E.Row for Lot j of a ledger, j counted from 1 (taxes.py:313-329).
ReportRow(j, trade) ==
    IF trade.type = CloseT
    THEN [ID |-> j - 1, kind |-> "Sale", F6 |-> trade.date,
          F7 |-> Fixed4(trade.quantity), F9 |-> Fixed4(trade.value),
          F10 |-> "true", F8 |-> Fixed4(trade.stock)]
    ELSE [ID |-> j - 1, kind |-> "Purchase", F1 |-> trade.date,
          F2 |-> trade.acquisition_type, F3 |-> Fixed4(trade.quantity),
          F4 |-> Fixed4(trade.value), F8 |-> Fixed4(trade.stock)]

\* E.KDVPItem for the i-th ledger, i counted from 1 (taxes.py:301-333).
ReportItem(i, item) ==
    [ItemID |-> i, Name |-> item.name, Code |-> item.name,
     IsFond |-> BoolStr(item.is_fond),
     Rows |-> [j \in 1..Len(item.securities) |->
                  ReportRow(j, item.securities[j])]]

\* The Doh_KDVP body of the envelope (taxes.py:284-336).
Envelope(its) ==
    [SecurityCount |-> Len(its),
     Items |-> [i \in 1..Len(its) |-> ReportItem(i, its[i])]]

\* ------------------------------------------------------------ currency.py
\* Currency.currency_data: for some dates, the rates of some currencies.
\* get_currency keeps a date only with at least one rate and ends the run on
\* an empty table (currency.py:67-78).
RateDates == {2, 3, 5}
QueryDates == 1..6
RateCurrencies == {"USD", "CAD"}
QueryCurrencies == {"USD", "CAD", "GBP"}

\* The rate the table of the model holds for a currency on a date.
Rate(date, currency) == 100 * date + (IF currency = "USD" THEN 8 ELSE 47)

CurrencyTables ==
    UNION {{[d \in D |-> [c \in avail[d] |-> Rate(d, c)]] :
                avail \in [D -> (SUBSET RateCurrencies) \ {{}}]} :
             D \in (SUBSET RateDates) \ {{}}}

MinDate(S) == CHOOSE d \in S : \A e \in S : d <= e
MaxDate(S) == CHOOSE d \in S : \A e \in S : e <= d

ResolveDateOldest(currency_data, date) ==
    IF date \in DOMAIN currency_data
    THEN [date |-> date, warned |-> FALSE]
    ELSE LET earlier_dates == {d \in DOMAIN currency_data : d < date}
         IN  IF earlier_dates = {}
             THEN [date |-> MinDate(DOMAIN currency_data), warned |-> TRUE]
             ELSE [date |-> MinDate(earlier_dates), warned |-> FALSE]

\* The date get_rate reads the rate of, and whether it warned
\* (currency.py:92-103).
ResolveDate(currency_data, date) ==
    IF date \in DOMAIN currency_data
    THEN [date |-> date, warned |-> FALSE]
    ELSE LET earlier_dates == {d \in DOMAIN currency_data : d < date}
         IN  IF earlier_dates = {}
             THEN [date |-> MinDate(DOMAIN currency_data), warned |-> TRUE]
             ELSE [date |-> MaxDate(earlier_dates), warned |-> FALSE]

\* Currency.get_rate: the rate returned, or sys.exit(1).
get_rate(currency_data, date, currency) ==
    LET r == ResolveDate(currency_data, date)
    IN  IF currency \notin DOMAIN currency_data[r.date]
        THEN [exited |-> TRUE, warned |-> r.warned, used |-> r.date]
        ELSE [exited |-> FALSE, warned |-> r.warned, used |-> r.date,
              rate |-> currency_data[r.date][currency]]

\* ------------------------------------------------------------ interest.py
\* Interest.date is the text strftime("%Y-%m-%d") wrote (revolut.py:46,
\* saxobank.py:56): year, month and day, each zero-padded to a fixed width,
\* so that the texts compare field by field.
InterestDates == {<<2024, 3, 15>>, <<2024, 3, 20>>, <<2024, 12, 1>>}

\* interest.date > existing.date on two such texts.
DateTextGreater(a, b) ==
    \/ a[1] > b[1]
    \/ a[1] = b[1] /\ a[2] > b[2]
    \/ a[1] = b[1] /\ a[2] = b[2] /\ a[3] > b[3]

\* Interest.value in units of 0.00001: 1.0, 0.50003 and 0.00004.  The
\* Saxo values are quotients amount / rate (saxobank.py:44-48) and carry more
\* than four decimals.  No sum of these values lies half-way between two
\* multiples of 0.0001.
InterestValues == {100000, 50003, 4}

\* round(x, 4) of a value in units of 0.00001.
Round4(x) ==
    LET r == x % 10
        down == x - r
    IN  IF r < 5 THEN down
        ELSE IF r > 5 THEN down + 10
        ELSE IF (down \div 10) % 2 = 0 THEN down ELSE down + 10

\* The payer of the tests and the six payers that differ from it in one
\* field of the key.
BasePayer ==
    [identification_number |-> "305799582", name |-> "Revolut", address |-> "Vilnius",
     country |-> "LT", type |-> 7, country2 |-> "LT"]

Payers ==
    {BasePayer,
     [BasePayer EXCEPT !.identification_number = "15731249"],
     [BasePayer EXCEPT !.name = "Saxo Bank A/S"],
     [BasePayer EXCEPT !.address = "Hellerup"],
     [BasePayer EXCEPT !.country = "DK"],
     [BasePayer EXCEPT !.type = 3],
     [BasePayer EXCEPT !.country2 = "DK"]}

Interest(date, payer, value) ==
    [date |-> date, identification_number |-> payer.identification_number,
     name |-> payer.name, address |-> payer.address, country |-> payer.country,
     type |-> payer.type, value |-> value, country2 |-> payer.country2]

Interests ==
    {Interest(d, p, v) : d \in InterestDates, p \in Payers, v \in {100000, 50003}}

CoreInterests ==
    {Interest(d, p, v) : d \in InterestDates,
                         p \in {BasePayer, [BasePayer EXCEPT !.country2 = "DK"]},
                         v \in InterestValues}

\* The lists of n interests the driver is run on.
InterestsFor(n) ==
    IF n <= 2 THEN [1..n -> Interests] ELSE [1..n -> CoreInterests]

PayerKeyNoCountry2(interest) ==
    <<interest.identification_number, interest.name, interest.address,
      interest.country, interest.type>>

\* key (interest.py:153-160)
PayerKey(interest) ==
    <<interest.identification_number, interest.name, interest.address,
      interest.country, interest.type, interest.country2>>

\* The position of the key in the dict, 0 if absent.
CondensedIndex(condensed, key) ==
    IF \E i \in 1..Len(condensed) : PayerKey(condensed[i]) = key
    THEN CHOOSE i \in 1..Len(condensed) : PayerKey(condensed[i]) = key
    ELSE 0

\* One round of the loop of condense_interests (interest.py:152-181): the
\* dict keeps its keys in the order of their first insertion.
CondenseOne(condensed, interest) ==
    LET i == CondensedIndex(condensed, PayerKey(interest))
    IN  IF i # 0
        THEN LET existing == condensed[i]
             IN  [condensed EXCEPT ![i] =
                     [existing EXCEPT
                        !.date = IF DateTextGreater(interest.date, existing.date)
                                 THEN interest.date ELSE existing.date,
                        !.value = Round4(existing.value + interest.value)]]
        ELSE Append(condensed, interest)

RECURSIVE CondenseFrom(_, _, _)
CondenseFrom(condensed, interests, i) ==
    IF i > Len(interests) THEN condensed
    ELSE CondenseFrom(CondenseOne(condensed, interests[i]), interests, i + 1)

\* DohObr.condense_interests: the new value of self.interests.
condense_interests(interests) == CondenseFrom(<<>>, interests, 1)

\* --------------------------------------------------------- cache_utils.py
\* The clock counts hours.  datetime.now().strftime('%Y-%m-%d') keeps the
\* calendar day of the clock and drops the time of day.
HoursPerDay == 24
Today(now) == now \div HoursPerDay

\* The hours that pass between two calls.
WaitHours == {1, 23, 24}

NoCacheFile == [exists |-> FALSE]
CacheFile(last_run) == [exists |-> TRUE, last_run |-> last_run]

\* should_execute (cache_utils.py:16-21)
should_execute(file, now) ==
    IF file.exists THEN file.last_run # Today(now) ELSE TRUE

\* ------------------------------------------------------- network_utils.py
\* What one round of the loop of download_with_retry meets: the try body
\* reaches `return response`, or raises Timeout, ConnectionError, HTTPError
\* with the status of the response, or another exception (a failure to write
\* output_file is one).
Outcome(kind, status) == [kind |-> kind, status |-> status]

Outcomes ==
    {Outcome("ok", 200), Outcome("Timeout", 0), Outcome("ConnectionError", 0),
     Outcome("HTTPError", 404), Outcome("HTTPError", 503), Outcome("Exception", 0)}

ShouldRetryAlways(outcome) == outcome.kind # "ok"

\* The handlers that retry (network_utils.py:46-84): every exception but an
\* HTTPError with a status below 500.
ShouldRetry(outcome) ==
    /\ outcome.kind # "ok"
    /\ outcome.kind = "HTTPError" => outcome.status >= 500

\* retry_delay: float = 1.0
InitialRetryDelay == 1

\* -------------------------------------------------------------------- state
VARIABLES
    items,            \* DohKDVP.items
    pc,               \* where the driver of the registry is
    ncalls,           \* DohKDVP.add_trade calls made so far
    last,             \* the latest DohKDVP.add_trade call of the driver: its
                      \* arguments, the registry and the ledger before it,
                      \* whether it merged
    inserted,         \* per (symbol, merge key): how many Lots and how much
                      \* quantity the calls so far have passed in, and the
                      \* rank of the key's first Lot among the keys of its
                      \* symbol and date, by arrival
    position_errors,  \* what validate_positions returned
    df,               \* the Saxo frame handed to saxo_trades_to_kdvp
    seen_close_ids,   \* saxo_trades_to_kdvp's set of close ids met so far
    log,              \* the add_trade calls saxo_trades_to_kdvp has made
    first_calls,      \* per identifier, in order: the is_fond argument of
                      \* the first DohKDVP.add_trade call made with it
    args,             \* the gains run: the IBKR export and the Saxo sheet
                      \* given on the command line
    ibkr_trades,      \* what process_ibkr_xml returned
    kdvp_trades,      \* what ibkr_trades_to_kdvp returned
    trade_count,      \* gains' count of the trades ingested
    output,           \* the report files written
    exited_in,        \* the function that called sys.exit(1), "" if none
    cur,              \* a Currency, a call of its get_rate and the outcome
    doh_obr,          \* a DohObr: its interests and where its driver is
    dl,               \* a call of download_or_exit: the loop of
                      \* download_with_retry and what came of it
    cache,            \* a function wrapped by cache_daily: the clock, the
                      \* cache file and the latest call
    order             \* a list of Lots inserted in two orders

vars == <<items, pc, ncalls, last, inserted, position_errors,
          df, seen_close_ids, log, first_calls,
          args, ibkr_trades, kdvp_trades, trade_count, output, exited_in,
          cur, doh_obr, dl, cache, order>>
saxoVars == <<df, seen_close_ids, log>>
gainsVars == <<args, ibkr_trades, kdvp_trades, trade_count, output>>
ledgerVars == <<items, pc, ncalls, last, inserted, position_errors,
                df, seen_close_ids, log, first_calls, gainsVars, exited_in>>
sideVars == <<cur, doh_obr, dl, cache, order>>

\* The merge key of a Lot as the specification words it: date, unit price,
\* kind and the kind's own field.
VariantOf(s) ==
    IF s.type = OpenT THEN s.acquisition_type
    ELSE IF s.loss_transfer THEN "loss" ELSE "noloss"

KeyOf(s) == <<s.date, s.value, s.type, VariantOf(s)>>

NoCall == [symbol |-> "", merged |-> FALSE]

Recorded(ins, symbol, trade) ==
    LET k == <<symbol, KeyOf(trade)>>
        sameDay == {x \in DOMAIN ins : x[1] = symbol /\ x[2][1] = trade.date}
        old == IF k \in DOMAIN ins THEN ins[k]
               ELSE [n |-> 0, quantity |-> 0,
                     at |-> Cardinality(sameDay) + 1]
    IN  [x \in DOMAIN ins \cup {k} |->
            IF x = k THEN [n |-> old.n + 1,
                           quantity |-> old.quantity + trade.quantity,
                           at |-> old.at]
            ELSE ins[x]]

NothingInserted == [x \in {} |-> 0]

FirstCall(fc, symbol, is_fond) ==
    IF \E e \in 1..Len(fc) : fc[e].symbol = symbol THEN fc
    ELSE Append(fc, [symbol |-> symbol, is_fond |-> is_fond])

TradeInputs ==
    {KDVPSecurityOpen(d, q, v, st, a) :
        d \in Dates, q \in Quantities, v \in Prices,
        st \in StockPlaceholders, a \in AcquisitionTypes}
    \cup
    {KDVPSecurityClose(d, q, v, st, lt) :
        d \in Dates, q \in Quantities, v \in Prices,
        st \in StockPlaceholders, lt \in BOOLEAN}

NoArgs == [ibkr_given |-> FALSE, ibkr |-> <<>>,
           saxo_given |-> FALSE, saxo |-> <<>>]

\* The registry and the locals of a run before any trade was ingested.
Fresh ==
    /\ items = <<>>
    /\ ncalls = 0
    /\ last = NoCall
    /\ inserted = NothingInserted
    /\ position_errors = <<>>
    /\ seen_close_ids = {}
    /\ log = <<>>
    /\ first_calls = <<>>
    /\ ibkr_trades = <<>>
    /\ kdvp_trades = <<>>
    /\ trade_count = 0
    /\ output = <<>>
    /\ exited_in = ""

\* Nothing but the ledgers is in use.
NoCurrency == [pc |-> "idle"]
NoDohObr == [pc |-> "idle"]
NoDownload == [pc |-> "idle"]
NoCache == [pc |-> "idle"]
NoOrder == [pc |-> "idle"]

SideIdle ==
    /\ cur = NoCurrency
    /\ doh_obr = NoDohObr
    /\ dl = NoDownload
    /\ cache = NoCache
    /\ order = NoOrder

Init ==
    /\ SideIdle
    /\ Fresh
    /\ pc = "ingest"
    /\ df = <<>>
    /\ args = NoArgs

\* One call of DohKDVP.add_trade(symbol, trade, is_fond) by a driver.
AddTrade(symbol, trade, is_fond) ==
    /\ pc = "ingest"
    /\ ncalls < MaxTrades
    /\ items' = DohKDVP_add_trade(items, symbol, trade, is_fond)
    /\ last' = [symbol |-> symbol, trade |-> trade, is_fond |-> is_fond,
                items |-> items, before |-> Ledger(items, symbol),
                merged |-> Len(Ledger(items', symbol))
                             = Len(Ledger(items, symbol))]
    /\ inserted' = Recorded(inserted, symbol, trade)
    /\ first_calls' = FirstCall(first_calls, symbol, is_fond)
    /\ ncalls' = ncalls + 1
    /\ UNCHANGED <<pc, position_errors, saxoVars, gainsVars, exited_in>>
    /\ UNCHANGED sideVars

\* position_errors = doh_kdvp.validate_positions(), after the ingestion.
ValidatePositions ==
    /\ pc \in {"ingest", "saxo_done", "counted"}
    /\ position_errors' = validate_positions(items)
    /\ pc' = "validated"
    /\ UNCHANGED <<items, ncalls, last, inserted, first_calls, saxoVars,
                   gainsVars, exited_in>>
    /\ UNCHANGED sideVars

\* A single KDVPItem, "AAPL", fed every kind of Lot.
Next == \E trade \in TradeInputs : AddTrade("AAPL", trade, FALSE)

Spec == Init /\ [][Next]_vars

\* The registry, fed Lots of several securities.
RegistryTrades ==
    {KDVPSecurityOpen(d, q, 150, 0, "A") : d \in Dates, q \in Quantities}
    \cup
    {KDVPSecurityClose(d, q, 150, 0, FALSE) : d \in Dates, q \in Quantities}

RegistryNext ==
    \/ \E symbol \in Symbols, trade \in RegistryTrades, is_fond \in BOOLEAN :
          AddTrade(symbol, trade, is_fond)
    \/ ValidatePositions

RegistrySpec == Init /\ [][RegistryNext]_vars

\* A gains run over one Saxo report: saxo_trades_to_kdvp(df, doh_kdvp) on a
\* fresh registry, then the validator.
RECURSIVE FirstCallAll(_, _)
FirstCallAll(fc, calls) ==
    IF calls = <<>> THEN fc
    ELSE FirstCallAll(FirstCall(fc, Head(calls).symbol, Head(calls).is_fond),
                      Tail(calls))

RECURSIVE RecordedAll(_, _)
RecordedAll(ins, calls) ==
    IF calls = <<>> THEN ins
    ELSE RecordedAll(Recorded(ins, Head(calls).symbol, Head(calls).trade),
                     Tail(calls))

SaxoInit ==
    /\ SideIdle
    /\ Fresh
    /\ pc = "saxo"
    /\ df \in DataFrames
    /\ args = NoArgs

SaxoTradesToKdvp ==
    /\ pc = "saxo"
    /\ LET st == saxo_trades_to_kdvp(df, items)
       IN  /\ items' = st.items
           /\ seen_close_ids' = st.seen_close_ids
           /\ log' = st.log
           /\ ncalls' = Len(st.log)
           /\ inserted' = RecordedAll(inserted, st.log)
           /\ first_calls' = FirstCallAll(first_calls, st.log)
           /\ pc' = IF st.exited THEN "exit" ELSE "saxo_done"
           /\ exited_in' = IF st.exited THEN "saxo_trades_to_kdvp"
                           ELSE exited_in
    /\ UNCHANGED <<last, position_errors, df, gainsVars>>
    /\ UNCHANGED sideVars

SaxoNext ==
    \/ SaxoTradesToKdvp
    \/ ValidatePositions

SaxoSpec == SaxoInit /\ [][SaxoNext]_vars

\* ------------------------------------------------- taxes.py: the gains run
\* The exports a run is started on: an IBKR export, a Saxo sheet, one
\* element and one row of each, or neither.
IbkrFiles(n) == UNION {[1..m -> TradeElems] : m \in 0..n}
SaxoSheets(n) == UNION {[1..m -> RawRows] : m \in 0..n}

ArgsSet ==
    {[ibkr_given |-> TRUE, ibkr |-> f, saxo_given |-> FALSE, saxo |-> <<>>] :
        f \in IbkrFiles(MaxTrades)}
    \cup
    {[ibkr_given |-> FALSE, ibkr |-> <<>>, saxo_given |-> TRUE, saxo |-> sh] :
        sh \in SaxoSheets(MaxRows)}
    \cup
    {[ibkr_given |-> TRUE, ibkr |-> <<e>>, saxo_given |-> TRUE,
      saxo |-> <<r>>] : e \in TradeElems, r \in RawRows}
    \cup {NoArgs}

GainsInit ==
    /\ SideIdle
    /\ Fresh
    /\ pc = "start"
    /\ df = <<>>
    /\ args \in ArgsSet

\* The add_trade calls the loop over kdvp_trades makes.
IbkrCalls(tuples) ==
    [i \in 1..Len(tuples) |->
        [symbol |-> tuples[i][1], trade |-> tuples[i][2],
         is_fond |-> tuples[i][3]]]

\* sys.exit(1) called in function f.
ExitIn(f) ==
    /\ pc' = "exit"
    /\ exited_in' = f

\* `if args.ibkr:` and its block (taxes.py:181-186).
GainsIbkr ==
    /\ pc = "start"
    /\ IF ~args.ibkr_given
       THEN /\ pc' = "ibkr_done"
            /\ UNCHANGED <<items, ncalls, inserted, first_calls, ibkr_trades,
                           kdvp_trades, trade_count, exited_in>>
       ELSE LET parsed == process_ibkr_xml(args.ibkr)
                tuples == ibkr_trades_to_kdvp(parsed.trades)
            IN  IF parsed.exited
                THEN /\ ExitIn("process_ibkr_xml")
                     /\ UNCHANGED <<items, ncalls, inserted, first_calls,
                                    ibkr_trades, kdvp_trades, trade_count>>
                ELSE /\ ibkr_trades' = parsed.trades
                     /\ kdvp_trades' = tuples
                     /\ items' = AddAll(items, tuples)
                     /\ ncalls' = ncalls + Len(tuples)
                     /\ inserted' = RecordedAll(inserted, IbkrCalls(tuples))
                     /\ first_calls' =
                           FirstCallAll(first_calls, IbkrCalls(tuples))
                     /\ trade_count' = trade_count + Len(parsed.trades)
                     /\ pc' = "ibkr_done"
                     /\ UNCHANGED exited_in
    /\ UNCHANGED <<last, position_errors, saxoVars, args, output>>
    /\ UNCHANGED sideVars

\* `if args.saxo:` and its block (taxes.py:189-244).
GainsSaxo ==
    /\ pc = "ibkr_done"
    /\ IF ~args.saxo_given
       THEN /\ pc' = "ingested"
            /\ UNCHANGED <<items, ncalls, inserted, first_calls, saxoVars,
                           trade_count, exited_in>>
       ELSE IF InvalidDates(args.saxo)
       THEN /\ ExitIn("gains")
            /\ UNCHANGED <<items, ncalls, inserted, first_calls, saxoVars,
                           trade_count>>
       ELSE LET frame == [i \in 1..Len(args.saxo) |->
                             process_row(args.saxo[i])]
                st == saxo_trades_to_kdvp(frame, items)
            IN  /\ df' = frame
                /\ items' = st.items
                /\ seen_close_ids' = st.seen_close_ids
                /\ log' = st.log
                /\ ncalls' = ncalls + Len(st.log)
                /\ inserted' = RecordedAll(inserted, st.log)
                /\ first_calls' = FirstCallAll(first_calls, st.log)
                /\ IF st.exited
                   THEN /\ ExitIn("saxo_trades_to_kdvp")
                        /\ UNCHANGED trade_count
                   ELSE /\ trade_count' = trade_count + Len(frame)
                        /\ pc' = "ingested"
                        /\ UNCHANGED exited_in
    /\ UNCHANGED <<last, position_errors, args, ibkr_trades, kdvp_trades,
                   output>>
    /\ UNCHANGED sideVars

\* `if trade_count == 0:` (taxes.py:246-249).
GainsCount ==
    /\ pc = "ingested"
    /\ IF trade_count = 0
       THEN ExitIn("gains")
       ELSE pc' = "counted" /\ UNCHANGED exited_in
    /\ UNCHANGED <<items, ncalls, last, inserted, position_errors,
                   first_calls, saxoVars, gainsVars>>
    /\ UNCHANGED sideVars

GainsReportUnchecked ==
    /\ pc = "validated"
    /\ output' = Append(output, Envelope(items))
    /\ pc' = "written"
    /\ UNCHANGED <<items, ncalls, last, inserted, position_errors,
                   first_calls, saxoVars, args, ibkr_trades, kdvp_trades,
                   trade_count, exited_in>>
    /\ UNCHANGED sideVars

\* `if position_errors:` and, past it, the envelope and xml.write
\* (taxes.py:255-349).
GainsReport ==
    /\ pc = "validated"
    /\ IF position_errors # <<>>
       THEN ExitIn("gains") /\ UNCHANGED output
       ELSE /\ output' = Append(output, Envelope(items))
            /\ pc' = "written"
            /\ UNCHANGED exited_in
    /\ UNCHANGED <<items, ncalls, last, inserted, position_errors,
                   first_calls, saxoVars, args, ibkr_trades, kdvp_trades,
                   trade_count>>
    /\ UNCHANGED sideVars

GainsNext ==
    \/ GainsIbkr
    \/ GainsSaxo
    \/ GainsCount
    \/ ValidatePositions
    \/ GainsReport

GainsSpec == GainsInit /\ [][GainsNext]_vars

\* The ledgers are not in use.
LedgerIdle ==
    /\ Fresh
    /\ pc = "idle"
    /\ df = <<>>
    /\ args = NoArgs

\* ------------------------------------------------- a call of get_rate
CurrencyInit ==
    /\ LedgerIdle
    /\ cur \in [pc : {"call"}, currency_data : CurrencyTables,
                date : QueryDates, currency : QueryCurrencies]
    /\ doh_obr = NoDohObr
    /\ dl = NoDownload
    /\ cache = NoCache
    /\ order = NoOrder

\* currency.get_rate(date, currency)
GetRate ==
    /\ cur.pc = "call"
    /\ LET r == get_rate(cur.currency_data, cur.date, cur.currency)
       IN  cur' = [pc |-> IF r.exited THEN "exit" ELSE "returned",
                   currency_data |-> cur.currency_data,
                   date |-> cur.date, currency |-> cur.currency,
                   result |-> r]
    /\ UNCHANGED <<ledgerVars, doh_obr, dl, cache, order>>

CurrencyNext == GetRate

CurrencySpec == CurrencyInit /\ [][CurrencyNext]_vars

\* ------------------------------------------- a run of condense_interests
InterestInit ==
    /\ LedgerIdle
    /\ \E n \in 0..MaxInterests : \E interests \in InterestsFor(n) :
          doh_obr = [pc |-> "added", interests |-> interests, added |-> interests]
    /\ cur = NoCurrency
    /\ dl = NoDownload
    /\ cache = NoCache
    /\ order = NoOrder

\* doh_obr.condense_interests(); `added` keeps the list it was called on.
CondenseInterests ==
    /\ doh_obr.pc = "added"
    /\ doh_obr' = [pc |-> "condensed",
                   interests |-> condense_interests(doh_obr.interests),
                   added |-> doh_obr.added]
    /\ UNCHANGED <<ledgerVars, cur, dl, cache, order>>

InterestNext == CondenseInterests

InterestSpec == InterestInit /\ [][InterestNext]_vars

\* ------------------------------------ calls of a cache_daily function
NoWrapperCall == [at |-> -1, since |-> -1, executed |-> FALSE, result |-> "None"]

CacheInit ==
    /\ LedgerIdle
    /\ \E now \in 0..(HoursPerDay - 1) :
          cache = [pc |-> "run", now |-> now, file |-> NoCacheFile,
                   last_exec |-> -1, call |-> NoWrapperCall]
    /\ cur = NoCurrency
    /\ doh_obr = NoDohObr
    /\ dl = NoDownload
    /\ order = NoOrder

\* Time passes.
Wait(h) ==
    /\ cache.pc = "run"
    /\ cache.now + h <= MaxClock
    /\ cache' = [cache EXCEPT !.now = cache.now + h]
    /\ UNCHANGED <<ledgerVars, cur, doh_obr, dl, order>>

\* wrapper(*args, **kwargs): the function runs within the hour.  `since` is
\* the number of hours since the function last ran, -1 if it never ran.
WrapperCall ==
    /\ cache.pc = "run"
    /\ LET run == should_execute(cache.file, cache.now)
           since == IF cache.last_exec < 0 THEN -1 ELSE cache.now - cache.last_exec
       IN  cache' = [cache EXCEPT
                        !.file = IF run THEN CacheFile(Today(cache.now)) ELSE @,
                        !.last_exec = IF run THEN cache.now ELSE @,
                        !.call = [at |-> cache.now, since |-> since, executed |-> run,
                                  result |-> IF run THEN "result" ELSE "None"]]
    /\ UNCHANGED <<ledgerVars, cur, doh_obr, dl, order>>

CacheNext ==
    \/ \E h \in WaitHours : Wait(h)
    \/ WrapperCall

CacheSpec == CacheInit /\ [][CacheNext]_vars

\* ----------------------------------------- a call of download_or_exit
DownloadInit ==
    /\ LedgerIdle
    /\ \E max_retries \in 0..MaxRetries :
          dl = [pc |-> "loop", max_retries |-> max_retries, attempt |-> 0,
                retry_delay |-> InitialRetryDelay, outcomes |-> <<>>,
                slept |-> <<>>, response |-> "None"]
    /\ cur = NoCurrency
    /\ doh_obr = NoDohObr
    /\ cache = NoCache
    /\ order = NoOrder

\* One round of `for attempt in range(max_retries + 1)`, with the return
\* that ends the function when the round is the last one.  `outcomes` lists
\* what the rounds met, `slept` the delays passed to time.sleep.
Attempt(outcome) ==
    /\ dl.pc = "loop"
    /\ dl.attempt <= dl.max_retries
    /\ LET met == [dl EXCEPT !.outcomes = Append(@, outcome)]
       IN  dl' = IF outcome.kind = "ok"
                 THEN [met EXCEPT !.pc = "returned", !.response = "response"]
                 ELSE IF ShouldRetry(outcome) /\ dl.attempt < dl.max_retries
                 THEN [met EXCEPT !.slept = Append(@, dl.retry_delay),
                                  !.retry_delay = dl.retry_delay * 2,
                                  !.attempt = dl.attempt + 1]
                 ELSE [met EXCEPT !.pc = "returned", !.response = "None"]
    /\ UNCHANGED <<ledgerVars, cur, doh_obr, cache, order>>

\* download_or_exit after download_with_retry returned.
DownloadOrExit ==
    /\ dl.pc = "returned"
    /\ dl' = [dl EXCEPT !.pc = IF dl.response = "None" THEN "exit" ELSE "done"]
    /\ UNCHANGED <<ledgerVars, cur, doh_obr, cache, order>>

DownloadNext ==
    \/ \E outcome \in Outcomes : Attempt(outcome)
    \/ DownloadOrExit

DownloadSpec == DownloadInit /\ [][DownloadNext]_vars

\* ------------------------------- one list of Lots inserted in two orders
OrderDates == {1, 2, 3}

OrderLots ==
    {KDVPSecurityOpen(d, q, 150, 7, "A") : d \in OrderDates, q \in Quantities}
    \cup {KDVPSecurityOpen(d, 1, 160, 7, "A") : d \in OrderDates}
    \cup {KDVPSecurityClose(d, 1, 150, 7, FALSE) : d \in OrderDates}
    \cup {KDVPSecurityClose(d, 2, 150, 7, TRUE) : d \in OrderDates}

CoreOrderLots ==
    {KDVPSecurityOpen(d, 1, 150, 7, "A") : d \in OrderDates}
    \cup {KDVPSecurityClose(d, 1, 150, 7, FALSE) : d \in OrderDates}

\* The lists of n Lots.
LotsFor(n) == IF n <= 3 THEN [1..n -> OrderLots] ELSE [1..n -> CoreOrderLots]

\* The orders in which n Lots can be inserted.
InsertionOrders(n) == {f \in [1..n -> 1..n] : \A i, j \in 1..n : f[i] = f[j] => i = j}

Reordered(lots, f) == [i \in 1..Len(lots) |-> lots[f[i]]]

\* item.add_trade(lot) for every lot of the list from the i-th on.
RECURSIVE AddTradesFrom(_, _, _)
AddTradesFrom(securities, lots, i) ==
    IF i > Len(lots) THEN securities
    ELSE AddTradesFrom(KDVPItem_add_trade(securities, lots[i]), lots, i + 1)

OrderInit ==
    /\ LedgerIdle
    /\ \E n \in 0..MaxTrades : \E lots \in LotsFor(n) :
          order = [pc |-> "given", lots |-> lots]
    /\ cur = NoCurrency
    /\ doh_obr = NoDohObr
    /\ dl = NoDownload
    /\ cache = NoCache

\* Two fresh KDVPItems receive the Lots, one in the order of the list and one
\* in the order f.
InsertBoth(f) ==
    /\ order.pc = "given"
    /\ order' = [pc |-> "built", lots |-> order.lots, f |-> f,
                 first |-> AddTradesFrom(<<>>, order.lots, 1),
                 second |-> AddTradesFrom(<<>>, Reordered(order.lots, f), 1)]
    /\ UNCHANGED <<ledgerVars, cur, doh_obr, dl, cache>>

OrderNext == \E f \in InsertionOrders(Len(order.lots)) : InsertBoth(f)

OrderSpec == OrderInit /\ [][OrderNext]_vars

\* ------------------------------------------------------------------ claims
AllLedgers == {items[k].securities : k \in 1..Len(items)}

\* C1: in every ledger built from empty by add_trade calls, merging or
\* appending, the Lots are in non-decreasing date order.
C1_SortedByDate ==
    \A securities \in AllLedgers :
        \A i, j \in 1..Len(securities) :
            i < j => securities[i].date <= securities[j].date

\* A Lot was appended whose date is earlier than that of a Lot already
\* there, after an earlier call had merged.
C1_Witness ==
    /\ ncalls = 3
    /\ ~last.merged
    /\ \E k \in DOMAIN inserted : inserted[k].n = 2
    /\ LET securities == Ledger(items, last.symbol)
       IN  /\ Len(securities) = 2
           /\ KeyOf(securities[1]) = KeyOf(last.trade)
           /\ securities[1].date < securities[2].date

\* C2: after every add_trade call each Lot's stock is the stock of the Lot
\* before it (0 before the first) plus its quantity for an Acquisition,
\* minus its quantity for a Disposal, whatever stock the caller passed in.
C2_RunningPosition ==
    \A securities \in AllLedgers :
        \A i \in 1..Len(securities) :
            LET prev == IF i = 1 THEN 0 ELSE securities[i - 1].stock
            IN  securities[i].stock =
                    IF securities[i].type = OpenT
                    THEN prev + securities[i].quantity
                    ELSE prev - securities[i].quantity

\* A call that merged into a Lot that is not the last one, passing a stock
\* other than 0, in a ledger that holds both kinds of Lot.
C2_Witness ==
    /\ ncalls > 0
    /\ last.merged
    /\ last.trade.stock # 0
    /\ LET securities == Ledger(items, last.symbol)
       IN  /\ Len(securities) = 2
           /\ KeyOf(securities[1]) = KeyOf(last.trade)
           /\ securities[1].type # securities[2].type

\* C3: the Lots passed in with one merge key are held as exactly one Lot
\* whose quantity is the sum of their quantities: a Lot whose key is already
\* in the ledger adds its quantity to that Lot and creates no new Lot.
C3_MergeSums ==
    \A k \in DOMAIN inserted :
        LET securities == Ledger(items, k[1])
            held == {i \in 1..Len(securities) : KeyOf(securities[i]) = k[2]}
        IN  /\ Cardinality(held) = 1
            /\ \A i \in held : securities[i].quantity = inserted[k].quantity

\* Three Lots with one key were passed in and are held as one Lot.
C3_Witness ==
    /\ ncalls = 3
    /\ last.merged
    /\ \E k \in DOMAIN inserted : inserted[k].n = 3
    /\ Len(Ledger(items, last.symbol)) = 1

\* C4: a call whose Lot matches no Lot of the ledger in date, unit price,
\* kind and the kind's field leaves the ledger with exactly one Lot more,
\* the new one, and with the quantity of every Lot that was there unchanged.
C4_NoMergeAcrossKeys ==
    LET before == last.before
        after == Ledger(items, last.symbol)
    IN  (/\ last # NoCall
         /\ \A i \in 1..Len(before) : KeyOf(before[i]) # KeyOf(last.trade))
        => /\ Len(after) = Len(before) + 1
           /\ \A i \in 1..Len(before) :
                \E j \in 1..Len(after) :
                    /\ KeyOf(after[j]) = KeyOf(before[i])
                    /\ after[j].quantity = before[i].quantity
           /\ \E j \in 1..Len(after) :
                /\ KeyOf(after[j]) = KeyOf(last.trade)
                /\ after[j].quantity = last.trade.quantity

\* The ledger holds three Lots of one date that differ only in unit price,
\* in kind, or in the kind's field, none merged into another.
C4_Witness ==
    /\ ncalls = 3
    /\ ~last.merged
    /\ LET securities == Ledger(items, last.symbol)
       IN  /\ Len(securities) = 3
           /\ \A i \in 1..3 : securities[i].date = last.trade.date
           /\ \E i, j \in 1..3 :
                /\ securities[i].value # securities[j].value
                /\ securities[i].type = securities[j].type
                /\ VariantOf(securities[i]) = VariantOf(securities[j])
           /\ \E i, j \in 1..3 :
                /\ securities[i].value = securities[j].value
                /\ securities[i].type = securities[j].type
                /\ VariantOf(securities[i]) # VariantOf(securities[j])

\* Sum of the values of a function with a finite domain.
RECURSIVE SumFn(_)
SumFn(f) ==
    IF DOMAIN f = {} THEN 0
    ELSE LET x == CHOOSE y \in DOMAIN f : TRUE
         IN  f[x] + SumFn([y \in DOMAIN f \ {x} |-> f[y]])

\* The running position after Lot i, from the quantities alone.
Position(securities, i) ==
    SumFn([j \in 1..i |-> IF securities[j].type = OpenT
                          THEN securities[j].quantity
                          ELSE 0 - securities[j].quantity])

Oversold(securities) ==
    \E i \in 1..Len(securities) : Position(securities, i) < 0

\* C5: run after the ingestion, the validator names every security whose
\* ledger holds a Lot with a negative running position, an interim one
\* included, and names no other; it returns the empty list when there is
\* none, and exactly one violation for Acquisition(q) then Disposal(q' > q).
C5_ValidatorCatchesOversell ==
    pc = "validated" =>
        LET named == {position_errors[e].symbol :
                        e \in 1..Len(position_errors)}
            oversold == {items[k].name :
                           k \in {n \in 1..Len(items) :
                                    Oversold(items[n].securities)}}
        IN  /\ named = oversold
            /\ (oversold = {}) <=> (position_errors = <<>>)
            /\ \A k \in 1..Len(items) :
                 LET securities == items[k].securities
                 IN  (/\ Len(items) = 1
                      /\ Len(securities) = 2
                      /\ securities[1].type = OpenT
                      /\ securities[2].type = CloseT
                      /\ securities[2].quantity > securities[1].quantity)
                     => /\ Len(position_errors) = 1
                        /\ position_errors[1].symbol = items[k].name

\* The validator ran on a ledger that was oversold after its second Lot and
\* is back above zero after its third, and reported it.
C5_Witness ==
    /\ pc = "validated"
    /\ Len(items) = 1
    /\ LET securities == items[1].securities
       IN  /\ Len(securities) = 3
           /\ Position(securities, 1) > 0
           /\ Position(securities, 2) < 0
           /\ Position(securities, 3) >= 0
    /\ Len(position_errors) = 1
    /\ position_errors[1].symbol = items[1].name

\* ------------------------------------------------- claims about the adapter
Finished == pc \in {"saxo_done", "validated"}

RowsOf(id) == {i \in 1..Len(df) : df[i].ClosePositionId = id}
IdsOfFrame == {df[i].ClosePositionId : i \in 1..Len(df)}
FirstRow(id) == CHOOSE i \in RowsOf(id) : \A j \in RowsOf(id) : i <= j

OpenCalls == {c \in 1..Len(log) : log[c].trade.type = OpenT}
CloseCalls == {c \in 1..Len(log) : log[c].trade.type = CloseT}
IdOfCall(c) == df[log[c].row].ClosePositionId

\* Every Lot of the registry, as (item index, Lot index).
AllLots ==
    UNION {{<<k, i>> : i \in 1..Len(items[k].securities)} :
             k \in 1..Len(items)}
LotAt(p) == items[p[1]].securities[p[2]]
OpenLots == {p \in AllLots : LotAt(p).type = OpenT}
CloseLots == {p \in AllLots : LotAt(p).type = CloseT}

\* C6: a Disposal is passed to add_trade once per ClosePositionId, at the
\* first row carrying the id and with that row's QuantityClose, and at no
\* later row: the Disposals held add up to one QuantityClose per id.
C6_OneDisposalPerCloseId ==
    /\ \A c \in CloseCalls :
         /\ log[c].row = FirstRow(IdOfCall(c))
         /\ log[c].trade.quantity = df[log[c].row].QuantityClose
    /\ \A c1, c2 \in CloseCalls : IdOfCall(c1) = IdOfCall(c2) => c1 = c2
    /\ Finished =>
         /\ \A id \in IdsOfFrame : \E c \in CloseCalls : IdOfCall(c) = id
         /\ SumFn([p \in CloseLots |-> LotAt(p).quantity])
              = SumFn([id \in IdsOfFrame |-> df[FirstRow(id)].QuantityClose])

\* Two rows repeated one ClosePositionId and its QuantityClose, the sum of
\* their QuantityOpen, and one Disposal of that quantity is held.
C6_Witness ==
    /\ pc = "saxo_done"
    /\ Len(df) = 2
    /\ df[1].ClosePositionId = df[2].ClosePositionId
    /\ df[1].QuantityOpen # df[2].QuantityOpen
    /\ df[1].QuantityClose = df[1].QuantityOpen + df[2].QuantityOpen
    /\ df[2].QuantityClose = df[1].QuantityClose
    /\ Cardinality(CloseCalls) = 1
    /\ \A p \in CloseLots : LotAt(p).quantity = df[1].QuantityClose

\* The loss-transfer flag of a close event, from the Gain of all its rows.
NetLoss(id) == SumFn([i \in RowsOf(id) |-> df[i].Gain]) < 0

\* The keys under which the rows' Acquisitions and the close events'
\* Disposals reach the ledgers.
OpenKeys == {<<df[i].Symbol, df[i].Trade_Date_Open, df[i].Open_Price>> :
                i \in 1..Len(df)}
RowsOfOpenKey(k) ==
    {i \in 1..Len(df) :
        <<df[i].Symbol, df[i].Trade_Date_Open, df[i].Open_Price>> = k}
CloseKeyOf(id) ==
    LET r == df[FirstRow(id)]
    IN  <<r.Symbol, r.Trade_Date_Close, r.Close_Price, NetLoss(id)>>
CloseKeys == {CloseKeyOf(id) : id \in IdsOfFrame}
IdsOfCloseKey(k) == {id \in IdsOfFrame : CloseKeyOf(id) = k}

\* C7 as stated: after a report was processed the registry holds one
\* Acquisition Lot per input row and one Disposal Lot per close id.
C7_OneLotPerRow ==
    Finished =>
        /\ Cardinality(OpenLots) = Len(df)
        /\ Cardinality(CloseLots) = Cardinality(IdsOfFrame)

\* C7: after a report was processed into an empty registry, one Acquisition
\* per row (the row's open date, QuantityOpen and open price, type "B") and
\* one Disposal per close id were passed to add_trade, and the registry
\* holds one Acquisition Lot per distinct (symbol, open date, open price) of
\* the rows and one Disposal Lot per distinct (symbol, close date, close
\* price, loss-transfer flag) of the close events, each with the summed
\* quantity.
C7_OneLotPerKey ==
    Finished =>
        /\ \A i \in 1..Len(df) :
             \E c \in OpenCalls :
                /\ log[c].row = i
                /\ log[c].symbol = df[i].Symbol
                /\ log[c].trade.date = df[i].Trade_Date_Open
                /\ log[c].trade.quantity = df[i].QuantityOpen
                /\ log[c].trade.value = df[i].Open_Price
                /\ log[c].trade.acquisition_type = "B"
                /\ \A c2 \in OpenCalls : log[c2].row = i => c2 = c
        /\ Cardinality(CloseCalls) = Cardinality(IdsOfFrame)
        /\ Cardinality(OpenLots) = Cardinality(OpenKeys)
        /\ \A k \in OpenKeys :
             \E p \in OpenLots :
                /\ items[p[1]].name = k[1]
                /\ LotAt(p).date = k[2]
                /\ LotAt(p).value = k[3]
                /\ LotAt(p).quantity =
                     SumFn([i \in RowsOfOpenKey(k) |-> df[i].QuantityOpen])
        /\ Cardinality(CloseLots) = Cardinality(CloseKeys)
        /\ \A k \in CloseKeys :
             \E p \in CloseLots :
                /\ items[p[1]].name = k[1]
                /\ LotAt(p).date = k[2]
                /\ LotAt(p).value = k[3]
                /\ LotAt(p).loss_transfer = k[4]
                /\ LotAt(p).quantity =
                     SumFn([id \in IdsOfCloseKey(k) |->
                                df[FirstRow(id)].QuantityClose])

\* Two rows of one security opened on one day at one price and closed by
\* two sales on one day: one Acquisition Lot and one Disposal Lot are held.
C7_Witness ==
    /\ pc = "saxo_done"
    /\ Len(df) = 2
    /\ df[1].ClosePositionId # df[2].ClosePositionId
    /\ Cardinality(OpenKeys) = 1
    /\ Cardinality(CloseKeys) = 1
    /\ df[1].QuantityOpen # df[2].QuantityOpen
    /\ Cardinality(OpenLots) = 1
    /\ Cardinality(CloseLots) = 1
    /\ Cardinality(OpenCalls) = 2
    /\ Cardinality(CloseCalls) = 2

\* The close ids whose rows disagree on QuantityClose.
Inconsistent ==
    {id \in IdsOfFrame :
        \E i, j \in RowsOf(id) : df[i].QuantityClose # df[j].QuantityClose}

C9_LossTransferIsNetLoss ==
    \A c \in CloseCalls :
        /\ log[c].trade.loss_transfer = NetLoss(IdOfCall(c))
        /\ \E p \in CloseLots :
              /\ items[p[1]].name = log[c].symbol
              /\ LotAt(p).date = log[c].trade.date
              /\ LotAt(p).value = log[c].trade.value
              /\ LotAt(p).loss_transfer = NetLoss(IdOfCall(c))

\* A close event whose first row lost 250 and whose second row gained 500
\* is held as a Disposal Lot without loss transfer.
C9_Witness ==
    /\ pc = "saxo_done"
    /\ Len(df) = 2
    /\ df[1].ClosePositionId = df[2].ClosePositionId
    /\ df[1].Gain < 0
    /\ df[1].Gain + df[2].Gain > 0
    /\ Cardinality(CloseLots) = 1
    /\ \A p \in CloseLots : ~LotAt(p).loss_transfer

\* The close ids carried by several rows, each repeating a QuantityClose
\* equal to the sum of the rows' QuantityOpen.
BalancedGroups ==
    {id \in IdsOfFrame :
        /\ Cardinality(RowsOf(id)) > 1
        /\ \A i \in RowsOf(id) :
             df[i].QuantityClose =
                SumFn([j \in RowsOf(id) |-> df[j].QuantityOpen])}

\* The stock of the Disposal Lot that holds the close event id.
StockOfDisposal(id) ==
    LET k == CloseKeyOf(id)
        p == CHOOSE q \in CloseLots :
                /\ items[q[1]].name = k[1]
                /\ LotAt(q).date = k[2]
                /\ LotAt(q).value = k[3]
                /\ LotAt(q).loss_transfer = k[4]
    IN  LotAt(p).stock

RowsOfSymbol(symbol) == {i \in 1..Len(df) : df[i].Symbol = symbol}
IdsOfSymbol(symbol) == {df[i].ClosePositionId : i \in RowsOfSymbol(symbol)}
DisposalsOf(symbol) == {p \in CloseLots : items[p[1]].name = symbol}
SymbolsOfFrame == {df[i].Symbol : i \in 1..Len(df)}

\* C11 as stated: a security whose rows carry k distinct ClosePositionIds
\* ends with k Disposal Lots in its ledger.
C11_OneDisposalPerId ==
    Finished =>
        \A symbol \in SymbolsOfFrame :
            Cardinality(DisposalsOf(symbol))
                = Cardinality(IdsOfSymbol(symbol))

\* C11: a security whose rows carry k distinct ClosePositionIds, each carried
\* by rows of that security only, ends with k Disposal Lots when the close
\* events differ pairwise in close date, close price or loss-transfer flag;
\* close events that agree in all three are held as one Disposal Lot.
C11_OneDisposalPerCloseKey ==
    Finished =>
        \A symbol \in SymbolsOfFrame :
            LET ids == IdsOfSymbol(symbol)
            IN  (\A id \in ids : RowsOf(id) \subseteq RowsOfSymbol(symbol))
                => /\ Cardinality(DisposalsOf(symbol))
                        = Cardinality({CloseKeyOf(id) : id \in ids})
                   /\ (\A id1, id2 \in ids :
                          id1 # id2 => CloseKeyOf(id1) # CloseKeyOf(id2))
                      => Cardinality(DisposalsOf(symbol)) = Cardinality(ids)

\* Two rows of one security with different ids, closed on one day at one
\* price, one in gain and one in loss: two Disposal Lots are held.
C11_Witness ==
    /\ pc = "saxo_done"
    /\ Len(df) = 2
    /\ df[1].Symbol = df[2].Symbol
    /\ df[1].ClosePositionId # df[2].ClosePositionId
    /\ df[1].Trade_Date_Close = df[2].Trade_Date_Close
    /\ df[1].Close_Price = df[2].Close_Price
    /\ NetLoss(df[1].ClosePositionId) # NetLoss(df[2].ClosePositionId)
    /\ Cardinality(DisposalsOf(df[1].Symbol)) = 2

\* ------------------------------------------------ claims about the registry
\* The identifiers the add_trade calls so far were made with.
UsedSymbols == {k[1] : k \in DOMAIN inserted}

\* The quantity passed in for a security, and the quantity its ledger holds.
QuantityPassed(symbol) ==
    SumFn([k \in {x \in DOMAIN inserted : x[1] = symbol} |->
              inserted[k].quantity])
QuantityHeld(symbol) ==
    LET securities == Ledger(items, symbol)
    IN  SumFn([i \in 1..Len(securities) |-> securities[i].quantity])

\* C12: after any sequence of add_trade calls the registry holds exactly one
\* ledger per identifier used, named after it, in the order of each
\* identifier's first call; no ledger was removed or replaced: each still
\* holds all the quantity ever passed in for its identifier, and the latest
\* call worked on the ledger that was there before it.
C12_OneLedgerPerIdentifier ==
    /\ Names(items) = UsedSymbols
    /\ Len(items) = Cardinality(UsedSymbols)
    /\ Len(items) = Len(first_calls)
    /\ \A k \in 1..Len(items) : items[k].name = first_calls[k].symbol
    /\ \A symbol \in UsedSymbols :
          QuantityHeld(symbol) = QuantityPassed(symbol)
    /\ last # NoCall =>
          Ledger(items, last.symbol)
              = KDVPItem_add_trade(last.before, last.trade)

\* The third call went to the ledger created by the first, after the second
\* had created another ledger; the first ledger holds two Lots.
C12_Witness ==
    /\ ncalls = 3
    /\ Len(items) = 2
    /\ last.symbol = items[1].name
    /\ ~last.merged
    /\ Len(items[1].securities) = 2
    /\ Len(items[2].securities) = 1

\* C13: a ledger's is_fond flag is the is_fond argument of the first
\* add_trade call made with its identifier, whatever later calls passed.
C13_FirstIsFondWins ==
    \A k \in 1..Len(items) :
        \E e \in 1..Len(first_calls) :
            /\ first_calls[e].symbol = items[k].name
            /\ first_calls[e].is_fond = items[k].is_fond

\* The latest call went to a ledger that existed and passed the opposite of
\* the flag the ledger was created with.
C13_Witness ==
    /\ ncalls >= 2
    /\ last.before # <<>>
    /\ \E k \in 1..Len(items) :
          /\ items[k].name = last.symbol
          /\ items[k].is_fond # last.is_fond
          /\ ~items[k].is_fond

SameLot(s, t) == KeyOf(s) = KeyOf(t) /\ s.quantity = t.quantity

\* C19: a Lot that does not merge is placed after every Lot already in the
\* ledger whose date is not later than its own, so after all Lots of its own
\* date, and the Lots that were there keep their order; hence the Lots of one
\* date are held in the order in which their keys first arrived.
C19_StableSort ==
    /\ (last # NoCall /\ ~last.merged) =>
          LET before == last.before
              after == Ledger(items, last.symbol)
              p == 1 + Cardinality({i \in 1..Len(before) :
                                      before[i].date <= last.trade.date})
          IN  /\ Len(after) = Len(before) + 1
              /\ SameLot(after[p], last.trade)
              /\ \A i \in 1..Len(before) :
                    SameLot(after[IF i < p THEN i ELSE i + 1], before[i])
    /\ \A k \in 1..Len(items) :
          LET securities == items[k].securities
          IN  \A i \in 1..Len(securities) :
                inserted[<<items[k].name, KeyOf(securities[i])>>].at
                    = 1 + Cardinality({j \in 1..(i - 1) :
                            securities[j].date = securities[i].date})

\* The ledger held a Lot of the first day and a Lot of the second; a Lot of
\* the first day that matched neither went in between them.
C19_Witness ==
    /\ ncalls = 3
    /\ ~last.merged
    /\ Len(last.before) = 2
    /\ last.before[1].date = last.trade.date
    /\ last.before[2].date > last.trade.date
    /\ LET after == Ledger(items, last.symbol)
       IN  /\ Len(after) = 3
           /\ SameLot(after[1], last.before[1])
           /\ SameLot(after[2], last.trade)
           /\ SameLot(after[3], last.before[2])

\* --------------------------------------------- claims about the gains run
\* C15: every Lot stored in any ledger has quantity > 0, whichever path
\* ingested it.
C15_QuantityPositive ==
    \A p \in AllLots : LotAt(p).quantity > 0

\* C16: the report holds one Row per Lot, in ledger order, and the Sale
\* element of every Disposal Lot carries in F10 that Lot's loss_transfer.
C16_ReportRowsCarryLossTransfer ==
    \A f \in 1..Len(output) :
        /\ Len(output[f].Items) = Len(items)
        /\ \A i \in 1..Len(items) :
             LET rows == output[f].Items[i].Rows
                 securities == items[i].securities
             IN  /\ Len(rows) = Len(securities)
                 /\ \A j \in 1..Len(securities) :
                      IF securities[j].type = CloseT
                      THEN /\ rows[j].kind = "Sale"
                           /\ rows[j].F6 = securities[j].date
                           /\ rows[j].F10 =
                                BoolStr(securities[j].loss_transfer)
                      ELSE /\ rows[j].kind = "Purchase"
                           /\ rows[j].F1 = securities[j].date

\* The run has ended: in sys.exit(1) or past xml.write.
Ended == pc \in {"exit", "written"}

\* C17: a report is written only at the end of a run that ingested every
\* trade of the exports given, counted at least one, and got the empty list
\* from the validator; a run whose validator result is not empty, or that
\* ingested no trade, ends in sys.exit(1) with no report written; a run
\* that has not ended is at one of the steps of gains, none of which waits.
C17_ReportOnlyAfterValidation ==
    /\ output # <<>> =>
          /\ pc = "written"
          /\ Len(output) = 1
          /\ trade_count > 0
          /\ trade_count = Len(ibkr_trades) + Len(df)
          /\ ibkr_trades = process_ibkr_xml(args.ibkr).trades
          /\ Len(df) = Len(args.saxo)
          /\ ncalls = Len(kdvp_trades) + Len(log)
          /\ Len(kdvp_trades) = Len(ibkr_trades)
          /\ Cardinality(OpenCalls) = Len(df)
          /\ position_errors = <<>>
          /\ \A k \in 1..Len(items) : ~Oversold(items[k].securities)
    /\ pc = "written" => output # <<>>
    /\ pc = "exit" => output = <<>> /\ exited_in # ""
    /\ (Ended /\ (position_errors # <<>> \/ trade_count = 0)) =>
          pc = "exit" /\ output = <<>>
    /\ (pc \in {"validated", "written"} /\ position_errors = <<>>) =>
          \A k \in 1..Len(items) : ~Oversold(items[k].securities)
    /\ ~Ended => pc \in {"start", "ibkr_done", "ingested", "counted",
                         "validated"}

\* A run on an IBKR export of a purchase and a sale and on a Saxo row wrote
\* its report.
C17_Witness ==
    /\ pc = "written"
    /\ Len(ibkr_trades) = 1
    /\ Len(df) = 1
    /\ trade_count = 2
    /\ ncalls = 3
    /\ Len(output) = 1

\* C18 as stated: no function of the core calls sys.exit; only the caller,
\* gains, or the parser of an export does.
C18_CoreNeverExits ==
    exited_in \in {"", "gains", "process_ibkr_xml"}

\* C18: the ledger, the registry and the validator never end the process:
\* add_trade returns, the validator hands its list to gains, and gains calls
\* sys.exit(1) when the list is not empty.  The close-lot reconciliation
\* itself calls sys.exit(1), exactly when rows of one ClosePositionId
\* disagree on QuantityClose, and gains gets no value back from it.
C18_OnlyReconciliationExits ==
    /\ exited_in = "saxo_trades_to_kdvp" <=> (pc = "exit" /\ Inconsistent # {})
    /\ exited_in \in {"", "gains", "process_ibkr_xml", "saxo_trades_to_kdvp"}
    /\ position_errors # <<>> =>
          /\ pc \in {"validated", "exit"}
          /\ exited_in \in {"", "gains"}
          /\ pc = "exit" => exited_in = "gains"
    /\ (pc = "exit") <=> (exited_in # "")

\* A sheet of two rows that share a ClosePositionId and report QuantityClose
\* 2 and 3: the run ended inside saxo_trades_to_kdvp, before the validator.
C18_Witness ==
    /\ pc = "exit"
    /\ exited_in = "saxo_trades_to_kdvp"
    /\ Len(df) = 2
    /\ Inconsistent = {df[1].ClosePositionId}
    /\ position_errors = <<>>
    /\ trade_count = 0

\* C20: ibkr_trades_to_kdvp returns one tuple (symbol, Lot, is_etf) per
\* trade, in order: an Acquisition of type "A" for a buy, a Disposal with
\* loss_transfer false for a sell, with the trade's date, quantity and price.
C20_IbkrTradesToKdvp ==
    /\ kdvp_trades = ibkr_trades_to_kdvp(ibkr_trades)
    /\ Len(kdvp_trades) = Len(ibkr_trades)
    /\ \A i \in 1..Len(ibkr_trades) :
          LET trade == ibkr_trades[i]
              lot == kdvp_trades[i][2]
          IN  /\ Len(kdvp_trades[i]) = 3
              /\ kdvp_trades[i][1] = trade.symbol
              /\ kdvp_trades[i][3] = trade.is_etf
              /\ lot.date = trade.trade_date
              /\ lot.quantity = trade.quantity
              /\ lot.value = trade.price
              /\ lot.stock = 0
              /\ IF trade.is_buy
                 THEN lot.type = OpenT /\ lot.acquisition_type = "A"
                 ELSE lot.type = CloseT /\ lot.loss_transfer = FALSE

\* An export of a sale, an ETF purchase and a stock purchase was converted.
C20_Witness ==
    /\ Len(ibkr_trades) = 3
    /\ ~ibkr_trades[1].is_buy
    /\ ibkr_trades[2].is_buy /\ ibkr_trades[2].is_etf
    /\ ibkr_trades[3].is_buy /\ ~ibkr_trades[3].is_etf
    /\ Len(kdvp_trades) = 3
    /\ kdvp_trades[1][2].type = CloseT
    /\ kdvp_trades[2][3]

\* ------------------------------------------- more claims about the ledgers
\* The merge keys passed in so far for a security.
KeysPassed(symbol) == {k[2] : k \in {x \in DOMAIN inserted : x[1] = symbol}}

\* C26: no two Lots of a ledger share a merge key, and the ledger holds as
\* many Lots as distinct keys were passed in for it.
C26_KeysUnique ==
    \A k \in 1..Len(items) :
        LET securities == items[k].securities
        IN  /\ \A i, j \in 1..Len(securities) :
                 KeyOf(securities[i]) = KeyOf(securities[j]) => i = j
            /\ Len(securities) = Cardinality(KeysPassed(items[k].name))
            /\ {KeyOf(securities[i]) : i \in 1..Len(securities)}
                  = KeysPassed(items[k].name)

\* Three Lots were passed in, the third with the key of the Lot that is
\* second in the ledger: two Lots are held.
C26_Witness ==
    /\ ncalls = 3
    /\ last.merged
    /\ LET securities == Ledger(items, last.symbol)
       IN  /\ Len(securities) = 2
           /\ KeyOf(securities[2]) = KeyOf(last.trade)
           /\ KeyOf(securities[1]) # KeyOf(last.trade)

\* The reports the safety claim is about: every close event's rows repeat a
\* QuantityClose equal to the sum of their QuantityOpen (the rows of the
\* model are closed on or after the day they were opened).
BalancedFrame ==
    \A id \in IdsOfFrame :
        \A i \in RowsOf(id) :
            df[i].QuantityClose =
                SumFn([j \in RowsOf(id) |-> df[j].QuantityOpen])

\* C28: for such a report no Lot of any ledger has a negative stock once
\* saxo_trades_to_kdvp returned.
C28_BalancedNeverNegative ==
    (Finished /\ BalancedFrame) =>
        \A p \in AllLots : LotAt(p).stock >= 0

\* The add_trade calls replayed on a registry.
RECURSIVE Replay(_, _)
Replay(its, calls) ==
    IF calls = <<>> THEN its
    ELSE Replay(DohKDVP_add_trade(its, Head(calls).symbol, Head(calls).trade,
                                  Head(calls).is_fond),
                Tail(calls))

\* The first row at which the loop meets a close id whose rows disagree.
AbortRow ==
    CHOOSE r \in {FirstRow(id) : id \in Inconsistent} :
        \A id \in Inconsistent : r <= FirstRow(id)

\* C29: the run aborts exactly when some close id has rows that disagree on
\* QuantityClose, at the first row carrying such an id, wherever in the
\* report the disagreeing row sits; no Disposal of that id was passed in; the
\* registry then holds what the rows before that row produced plus that
\* row's Acquisition, and nothing of the rows after it.
C29_AbortAtFirstRowOfGroup ==
    /\ pc # "saxo" => ((Inconsistent # {}) <=> (pc = "exit"))
    /\ pc = "exit" =>
          LET r == AbortRow
          IN  /\ log # <<>>
              /\ log[Len(log)].row = r
              /\ log[Len(log)].trade = TradeOpen(df[r])
              /\ \A c \in 1..Len(log) : log[c].row <= r
              /\ \A c \in CloseCalls :
                    /\ log[c].row < r
                    /\ IdOfCall(c) \notin Inconsistent
              /\ \A i \in 1..(r - 1) :
                    /\ \E c \in OpenCalls : log[c].row = i
                    /\ i = FirstRow(df[i].ClosePositionId)
                          => \E c \in CloseCalls : log[c].row = i
              /\ items = Replay(<<>>, log)
              /\ SumFn([p \in AllLots |-> LotAt(p).quantity])
                    = SumFn([c \in 1..Len(log) |-> log[c].trade.quantity])

\* Three rows: the first and the third share an id and report QuantityClose
\* differently, the second has another id.  The run aborted at the first row
\* and the registry holds that row's Acquisition only.
C29_Witness ==
    /\ pc = "exit"
    /\ Len(df) = 3
    /\ df[1].ClosePositionId = df[3].ClosePositionId
    /\ df[1].ClosePositionId # df[2].ClosePositionId
    /\ df[1].QuantityClose # df[3].QuantityClose
    /\ Len(log) = 1
    /\ Cardinality(AllLots) = 1
    /\ CloseLots = {}

\* C30: a call of DohKDVP.add_trade leaves every other ledger as it was,
\* Lots, stock and is_fond; in the ledger it was made for, every Lot that was
\* there keeps its date, price and variant field, and at most one of them,
\* the merge target, has its quantity changed.
C30_OnlyTargetLedgerChanges ==
    last # NoCall =>
        LET before == last.before
            after == Ledger(items, last.symbol)
            p == 1 + Cardinality({i \in 1..Len(before) :
                                    before[i].date <= last.trade.date})
            was(i) == IF last.merged \/ i < p THEN i ELSE i + 1
        IN  /\ Len(items) \in {Len(last.items), Len(last.items) + 1}
            /\ \A k \in 1..Len(last.items) :
                  /\ items[k].name = last.items[k].name
                  /\ items[k].is_fond = last.items[k].is_fond
                  /\ items[k].name # last.symbol => items[k] = last.items[k]
            /\ \A i \in 1..Len(before) :
                  KeyOf(after[was(i)]) = KeyOf(before[i])
            /\ Cardinality({i \in 1..Len(before) :
                  after[was(i)].quantity # before[i].quantity}) <= 1
            /\ last.merged <=>
                  \E i \in 1..Len(before) :
                      after[was(i)].quantity # before[i].quantity

\* The third call merged into the ledger of one security while the other
\* security's ledger, created before it, held a Lot.
C30_Witness ==
    /\ ncalls = 3
    /\ last.merged
    /\ Len(items) = 2
    /\ last.symbol = items[2].name
    /\ Len(items[1].securities) = 1
    /\ items[1] = last.items[1]
    /\ items[2].securities[1].quantity
          = last.before[1].quantity + last.trade.quantity

\* ------------------------------------------------- claims about get_rate
\* C21: get_rate reads the rate of the date asked for when the table has
\* it; otherwise of the latest table date before it; otherwise, with a
\* warning, of the earliest table date; it returns that date's rate of the
\* currency, and calls sys.exit(1) when that date has no rate of it.
C21_GetRateFallsBack ==
    cur.pc \in {"returned", "exit"} =>
        LET table == cur.currency_data
            earlier == {d \in DOMAIN table : d < cur.date}
            res == cur.result
        IN  /\ cur.date \in DOMAIN table =>
                 res.used = cur.date /\ ~res.warned
            /\ (cur.date \notin DOMAIN table /\ earlier # {}) =>
                 /\ res.used \in earlier
                 /\ \A d \in earlier : d <= res.used
                 /\ ~res.warned
            /\ (cur.date \notin DOMAIN table /\ earlier = {}) =>
                 /\ res.used \in DOMAIN table
                 /\ \A d \in DOMAIN table : res.used <= d
                 /\ res.warned
            /\ (cur.pc = "exit") <=> (cur.currency \notin DOMAIN table[res.used])
            /\ cur.pc = "returned" =>
                 res.rate = Rate(res.used, cur.currency)

\* The table has the dates 2, 3 and 5 and the rate was asked for date 4: the
\* rate of date 3 came back, without a warning.
C21_Witness ==
    /\ cur.pc = "returned"
    /\ DOMAIN cur.currency_data = {2, 3, 5}
    /\ cur.date = 4
    /\ cur.result.used = 3
    /\ cur.result.rate = Rate(3, cur.currency)
    /\ ~cur.result.warned

\* --------------------------------------- claims about condense_interests
\* Two entries agree in the six fields that identify the payer.
SamePayer(a, b) ==
    /\ a.identification_number = b.identification_number
    /\ a.name = b.name
    /\ a.address = b.address
    /\ a.country = b.country
    /\ a.type = b.type
    /\ a.country2 = b.country2

\* The entries of a list that have the payer of an entry, in list order.
OfPayer(interests, e) == SelectSeq(interests, LAMBDA x : SamePayer(x, e))

RECURSIVE SumValues(_, _)
SumValues(entries, i) ==
    IF i > Len(entries) THEN 0 ELSE entries[i].value + SumValues(entries, i + 1)

\* The first value, then every further value added and the result rounded.
RECURSIVE RoundedSum(_, _)
RoundedSum(entries, n) ==
    IF n = 1 THEN entries[1].value
    ELSE Round4(RoundedSum(entries, n - 1) + entries[n].value)

LatestDate(entries) ==
    CHOOSE d \in {entries[i].date : i \in 1..Len(entries)} :
        \A i \in 1..Len(entries) : ~DateTextGreater(entries[i].date, d)

EarliestDate(entries) ==
    CHOOSE d \in {entries[i].date : i \in 1..Len(entries)} :
        \A i \in 1..Len(entries) : ~DateTextGreater(d, entries[i].date)

\* One entry per key of the list, no key twice.
OnePerPayer ==
    LET out == doh_obr.interests
    IN  /\ \A i, j \in 1..Len(out) : SamePayer(out[i], out[j]) => i = j
        /\ \A i \in 1..Len(out) :
              \E k \in 1..Len(doh_obr.added) : SamePayer(out[i], doh_obr.added[k])
        /\ \A k \in 1..Len(doh_obr.added) :
              \E i \in 1..Len(out) : SamePayer(out[i], doh_obr.added[k])

C25_MergedUsesEarliestDate ==
    doh_obr.pc = "condensed" =>
        \A i \in 1..Len(doh_obr.interests) :
            LET same == OfPayer(doh_obr.added, doh_obr.interests[i])
            IN  Len(same) > 1 => doh_obr.interests[i].date = EarliestDate(same)

\* ------------------------------------------------ claims about cache_daily
\* C24: a call made less than 24 hours after the function last ran does not
\* run it and returns None; a call made 24 hours after or later runs it and
\* records the new time of execution.
C24_CachedFor24Hours ==
    cache.pc = "run" /\ cache.call.since >= 0 =>
        /\ cache.call.since < 24 =>
              ~cache.call.executed /\ cache.call.result = "None"
        /\ cache.call.since >= 24 =>
              /\ cache.call.executed
              /\ cache.last_exec = cache.call.at
              /\ cache.file = CacheFile(Today(cache.call.at))

\* ---------------------------------------- claims about download_with_retry
RECURSIVE Doubled(_, _)
Doubled(delay, n) == IF n = 0 THEN delay ELSE 2 * Doubled(delay, n - 1)

Succeeded(outcome) == outcome.kind = "ok"
ClientError(outcome) ==
    outcome.kind = "HTTPError" /\ outcome.status >= 400 /\ outcome.status < 500

\* C23: download_with_retry makes at most max_retries + 1 attempts; no
\* attempt follows a success or an HTTP 4xx response; every other failure
\* that is followed by an attempt was first slept on, with a delay twice the
\* one before; it returns the response exactly when the last attempt
\* succeeded and None only when none did; download_or_exit returns only a
\* response and exits on None.
C23_RetryDiscipline ==
    dl.pc # "idle" =>
        LET n == Len(dl.outcomes)
            over == dl.pc # "loop"
        IN  /\ n <= dl.max_retries + 1
            /\ \A i \in 1..(n - 1) :
                  ~Succeeded(dl.outcomes[i]) /\ ~ClientError(dl.outcomes[i])
            /\ Len(dl.slept) = IF over THEN n - 1 ELSE n
            /\ \A i \in 1..Len(dl.slept) :
                  dl.slept[i] = Doubled(InitialRetryDelay, i - 1)
            /\ ~over => n <= dl.max_retries /\ dl.response = "None"
            /\ over =>
                  /\ n >= 1
                  /\ dl.response = "response" <=> Succeeded(dl.outcomes[n])
                  /\ dl.response = "None" <=>
                        \A i \in 1..n : ~Succeeded(dl.outcomes[i])
                  /\ dl.response = "None" =>
                        ClientError(dl.outcomes[n]) \/ n = dl.max_retries + 1
            /\ dl.pc = "done" => dl.response = "response"
            /\ dl.pc = "exit" => dl.response = "None"

\* A timeout and a 503 were retried after 1 and 2 seconds, the third attempt
\* succeeded and download_or_exit returned the response.
C23_Witness ==
    /\ dl.pc = "done"
    /\ dl.max_retries = 3
    /\ dl.outcomes = <<Outcome("Timeout", 0), Outcome("HTTPError", 503), Outcome("ok", 200)>>
    /\ dl.slept = <<1, 2>>
    /\ dl.response = "response"

\* ----------------------------------------- claims about insertion order
LotsOf(securities) ==
    {<<KeyOf(securities[i]), securities[i].quantity>> : i \in 1..Len(securities)}

DistinctDates(securities) ==
    \A i, j \in 1..Len(securities) :
        securities[i].date = securities[j].date => i = j

====
